---- MODULE Spec2Model ----
(***************************************************************************)
(* A model of the git datasource plugin's streaming crawl                  *)
(* (datasources/git_website_crawl.py) and of the git client it drives      *)
(* (git_client.py, utils/filtering.py).                                    *)
(*                                                                         *)
(* Strings are sequences of one-character strings, so that the string      *)
(* functions of the code (strip, startswith, endswith, lower, split) are   *)
(* computed, not assumed.  A commit SHA is the index of the commit in the  *)
(* sequence of all commits ever pushed; 0 stands for None.                 *)
(***************************************************************************)
EXTENDS Integers, Sequences, FiniteSets, TLC

(***************************************************************************)
(* Bounds of the model.                                                    *)
(***************************************************************************)
\* commits ever pushed to the remote branch
MaxCommits == 2
\* crawl invocations in one behaviour
MaxCrawls == 2
\* read faults (IOError or another exception from read_file) in one crawl
MaxIoFaults == 3
\* state-store reads that time out or raise in one behaviour
MaxStoreFaults == 1
\* the longest path given to _normalize_path on its own
MaxPathLen == 4
\* the longest text and the longest credential value given to mask_credentials
MaxTextLen == 3
MaxSecretLen == 2
\* the most credentials in one map
MaxCredentials == 2
\* the most segments (URLs and words) of a git error text
MaxSegments == 3
\* the longest subdir parameter given to the path filters on their own
MaxSubdirLen == 3
\* clone or fetch operations of one GitClient in a process that runs two
MaxSshOps == 2
\* BATCH_SIZE is 50 in the source; scaled so that full batches occur
BATCH_SIZE == 2
\* MAX_FAILED_PATHS is 10000 in the source; scaled so that the cap is hit
MAX_FAILED_PATHS == 2

(***************************************************************************)
(* Program constants.                                                      *)
(***************************************************************************)
MAX_COMMITS_FOR_INCREMENTAL == 1000
MAX_FILE_SIZE == 5242880
BINARY_SAMPLE_SIZE == 8192

None == "None"

(***************************************************************************)
(* Strings.                                                                *)
(***************************************************************************)
Range(s) == {s[i] : i \in 1..Len(s)}

StartsWith(s, pre) ==
    Len(pre) <= Len(s) /\ SubSeq(s, 1, Len(pre)) = pre

EndsWith(s, suf) ==
    Len(suf) <= Len(s) /\ SubSeq(s, Len(s) - Len(suf) + 1, Len(s)) = suf

\* str.lower() on the alphabet of the model
LowerChar(c) ==
    CASE c = "M" -> "m"
      [] c = "U" -> "u"
      [] c = "D" -> "d"
      [] c = "P" -> "p"
      [] OTHER -> c

Lower(s) == [i \in 1..Len(s) |-> LowerChar(s[i])]

\* str.upper() on the alphabet of the model
UpperChar(c) ==
    CASE c = "m" -> "M"
      [] c = "u" -> "U"
      [] c = "d" -> "D"
      [] c = "p" -> "P"
      [] OTHER -> c

Upper(s) == [i \in 1..Len(s) |-> UpperChar(s[i])]

RECURSIVE LStrip(_, _)
LStrip(s, chars) ==
    IF s # <<>> /\ Head(s) \in chars THEN LStrip(Tail(s), chars) ELSE s

RECURSIVE RStrip(_, _)
RStrip(s, chars) ==
    IF s # <<>> /\ s[Len(s)] \in chars
    THEN RStrip(SubSeq(s, 1, Len(s) - 1), chars)
    ELSE s

\* str.strip(chars)
Strip(s, chars) == RStrip(LStrip(s, chars), chars)

Whitespace == {" "}

\* str.split(sep) for a one-character separator
RECURSIVE Split(_, _)
Split(s, sep) ==
    IF \A i \in 1..Len(s) : s[i] # sep
    THEN <<s>>
    ELSE LET k == CHOOSE i \in 1..Len(s) :
                      s[i] = sep /\ \A j \in 1..(i - 1) : s[j] # sep
         IN  <<SubSeq(s, 1, k - 1)>> \o Split(SubSeq(s, k + 1, Len(s)), sep)

\* str.replace("\\", "/")
ReplaceBackslash(s) == [i \in 1..Len(s) |-> IF s[i] = "\\" THEN "/" ELSE s[i]]

\* s has sub at position i
MatchAt(s, i, sub) ==
    i + Len(sub) - 1 <= Len(s) /\ SubSeq(s, i, i + Len(sub) - 1) = sub

\* sub in s
Contains(s, sub) == \E i \in 1..(Len(s) + 1) : MatchAt(s, i, sub)

\* str.find(sub) and str.rfind(sub), counted from 1: 0 where Python gives -1
Find(s, sub) ==
    IF Contains(s, sub)
    THEN CHOOSE i \in 1..(Len(s) + 1) :
            MatchAt(s, i, sub) /\ \A j \in 1..(i - 1) : ~MatchAt(s, j, sub)
    ELSE 0

RFind(s, sub) ==
    IF Contains(s, sub)
    THEN CHOOSE i \in 1..(Len(s) + 1) :
            MatchAt(s, i, sub) /\ \A j \in (i + 1)..(Len(s) + 1) : ~MatchAt(s, j, sub)
    ELSE 0

\* str.replace(old, new) for a non-empty old: leftmost, non-overlapping
RECURSIVE Replace(_, _, _)
Replace(s, old, new) ==
    IF s = <<>> THEN <<>>
    ELSE IF MatchAt(s, 1, old)
    THEN new \o Replace(SubSeq(s, Len(old) + 1, Len(s)), old, new)
    ELSE <<Head(s)>> \o Replace(Tail(s), old, new)

(***************************************************************************)
(* utils/masking.py                                                        *)
(***************************************************************************)
Stars == <<"*", "*", "*">>

\* a value of the credentials map that is None or not a string
NotAString == <<"None">>

\* the body of the loop of mask_credentials for one value of the map
MaskValue(result, value) ==
    IF value # NotAString /\ value # <<>>
    THEN Replace(result, value, Stars)
    ELSE result

\* mask_credentials: credentials is the sequence of the values of the map in
\* the order the map yields them
RECURSIVE MaskValues(_, _)
MaskValues(result, values) ==
    IF values = <<>> THEN result
    ELSE MaskValues(MaskValue(result, Head(values)), Tail(values))

mask_credentials(text, credentials) ==
    IF text = <<>> \/ credentials = <<>> THEN text
    ELSE MaskValues(text, credentials)

SchemeSep == <<":", "/", "/">>

mask_url(url) ==
    IF url = <<>> THEN url
    ELSE IF ~Contains(url, SchemeSep) THEN url
    ELSE LET scheme_end == Find(url, SchemeSep) + 2
             rest == SubSeq(url, scheme_end + 1, Len(url))
             slash_pos == Find(rest, <<"/">>)
             search_part == IF slash_pos = 0 THEN rest
                            ELSE SubSeq(rest, 1, slash_pos - 1)
             at_pos == RFind(search_part, <<"@">>)
         IN  IF at_pos = 0 THEN url
             ELSE SubSeq(url, 1, scheme_end) \o Stars \o <<":">> \o Stars
                    \o <<"@">> \o SubSeq(rest, at_pos + 1, Len(rest))

(***************************************************************************)
(* utils/filtering.py                                                      *)
(***************************************************************************)
\* parse_extensions: split on commas, strip, lowercase, leading dot
RECURSIVE ParseExtensionParts(_)
ParseExtensionParts(parts) ==
    IF parts = <<>> THEN <<>>
    ELSE LET ext == Lower(Strip(Head(parts), Whitespace))
             rest == ParseExtensionParts(Tail(parts))
         IN  IF ext = <<>> THEN rest
             ELSE IF StartsWith(ext, <<".">>) THEN <<ext>> \o rest
             ELSE <<(<<".">> \o ext)>> \o rest

parse_extensions(extensions_str) ==
    IF extensions_str = <<>> THEN <<>>
    ELSE ParseExtensionParts(Split(extensions_str, ","))

\* filter_by_extensions, as the predicate it applies to one path
ExtensionsMatch(path, extensions) ==
    \/ extensions = <<>>
    \/ \E i \in 1..Len(extensions) :
          LET ext == extensions[i]
              normalized_ext == IF StartsWith(ext, <<".">>)
                                THEN Lower(ext)
                                ELSE <<".">> \o Lower(ext)
          IN  EndsWith(Lower(path), normalized_ext)

\* filter_by_subdir, as the predicate it applies to one path
SubdirMatch(path, subdir) ==
    IF subdir = <<>> \/ Strip(subdir, Whitespace) = <<>> THEN TRUE
    ELSE LET sd == Strip(Strip(subdir, Whitespace), {"/"})
         IN  IF sd = <<>> THEN TRUE
             ELSE StartsWith(LStrip(path, {"/"}), sd \o <<"/">>)

\* the filter list_all_files and get_changed_files.filter_paths apply
FilterPaths(path, subdir, extensions) ==
    /\ (subdir # <<>> => SubdirMatch(path, subdir))
    /\ (extensions # <<>> => ExtensionsMatch(path, extensions))

\* the inline filter of get_changed_files (renames) and of
\* _get_file_paths_incremental (prior failed paths)
InlineMatch(path, subdir, extensions) ==
    /\ \/ subdir = <<>>
       \/ StartsWith(path, Strip(subdir, {"/"}) \o <<"/">>)
    /\ \/ extensions = <<>>
       \/ \E i \in 1..Len(extensions) :
             EndsWith(Lower(path), Lower(extensions[i]))

(***************************************************************************)
(* The repositories of the model: paths, blobs and trees.                  *)
(***************************************************************************)
\* a file in the root directory whose name is a dot, two backslashes and w
PW == <<".", "\\", "\\", "w">>
PT == <<"d", "/", ".", ".", "/", "t", ".", "m">>
PU == <<"d", "/", "U", ".", "M">>
PA == <<"d", "/", "a", ".", "m">>
PB == <<"d", "/", "b", ".", "m">>
PC == <<"d", "/", "c", ".", "m">>
PO == <<"o", "/", "b", ".", "m">>
PX == <<"s", "/", "x", ".", "p">>

\* every path of the model, in the order a recursive tree walk meets them
\* (git keeps tree entries sorted by name)
AllPathsOrdered == <<PW, PT, PU, PA, PB, PC, PO, PX>>

AllPaths == Range(AllPathsOrdered)

Absent == "absent"

\* what the code can observe of a blob: a magic prefix, the offset of its
\* first NUL byte (0: none), whether it decodes as UTF-8, its size in bytes
BlobInfo(b) ==
    CASE b = "png" -> [magic |-> "PNG", nulAt |-> 0, utf8 |-> FALSE, size |-> 100]
      [] b = "nul" -> [magic |-> "", nulAt |-> 5, utf8 |-> TRUE, size |-> 100]
      [] b = "far" -> [magic |-> "", nulAt |-> BINARY_SAMPLE_SIZE + 1, utf8 |-> TRUE,
                       size |-> BINARY_SAMPLE_SIZE + 10]
      [] b = "lat" -> [magic |-> "", nulAt |-> 0, utf8 |-> FALSE, size |-> 100]
      [] b = "big" -> [magic |-> "", nulAt |-> 0, utf8 |-> TRUE, size |-> MAX_FILE_SIZE + 1]
      [] b = "max" -> [magic |-> "", nulAt |-> 0, utf8 |-> TRUE, size |-> MAX_FILE_SIZE]
      [] OTHER -> [magic |-> "", nulAt |-> 0, utf8 |-> TRUE, size |-> 100]

MkTree(entries) ==
    [p \in AllPaths |->
        IF \E e \in entries : e[1] = p
        THEN (CHOOSE e \in entries : e[1] = p)[2]
        ELSE Absent]

\* the trees a commit of the model can have
TreeMenu ==
    << MkTree({<<PA, "a1">>, <<PB, "b1">>, <<PX, "x1">>}),
       MkTree({<<PA, "a1">>, <<PB, "b1">>, <<PC, "c1">>, <<PX, "x1">>}),
       MkTree({<<PT, "t1">>, <<PU, "lat">>, <<PA, "big">>, <<PB, "far">>,
               <<PC, "png">>, <<PX, "x1">>}),
       MkTree({<<PU, "max">>, <<PA, "a2">>, <<PC, "nul">>, <<PO, "b1">>,
               <<PX, "x1">>}),
       MkTree({<<PW, "w1">>, <<PX, "x2">>}) >>

Trees == 1..Len(TreeMenu)

\* the sizes of a push: one commit, or a run of commits of which only the
\* last is ever seen by a fetch
PushSpans == {1, MAX_COMMITS_FOR_INCREMENTAL, MAX_COMMITS_FOR_INCREMENTAL + 1}

\* the trees of the first commit
InitialTrees == {1, 3}

\* the repository and branch of the model's configurations
RepoUrl == <<"/", "s">>
Branch == <<"m">>

\* the configurations (datasource_parameters) of the model
Configs ==
    { [repo_url |-> RepoUrl, branch |-> Branch, subdir |-> <<"d">>,
       extensions |-> <<"M">>],
      [repo_url |-> RepoUrl, branch |-> Branch, subdir |-> <<" ", "d">>,
       extensions |-> <<"M">>],
      [repo_url |-> RepoUrl, branch |-> Branch, subdir |-> <<>>,
       extensions |-> <<>>] }

(***************************************************************************)
(* git_client.py: the commit graph.                                        *)
(***************************************************************************)
RECURSIVE Ancestors(_, _)
Ancestors(commits, sha) ==
    IF sha = 0 THEN {} ELSE {sha} \cup Ancestors(commits, commits[sha].parent)

\* is_sha_reachable: git merge-base --is-ancestor old new; a commit is its
\* own ancestor, and an error (an unknown object) gives False
is_sha_reachable(commits, old_sha, new_sha) ==
    old_sha \in Ancestors(commits, new_sha)

RECURSIVE SumSpans(_, _)
SumSpans(commits, S) ==
    IF S = {} THEN 0
    ELSE LET c == CHOOSE x \in S : TRUE
         IN  commits[c].span + SumSpans(commits, S \ {c})

\* get_commit_count: the number of commits in old..new
get_commit_count(commits, old_sha, new_sha) ==
    SumSpans(commits, Ancestors(commits, new_sha) \ Ancestors(commits, old_sha))

TreeAt(commits, sha) == TreeMenu[commits[sha].tree]

\* list_all_files: every blob of the tree in walk order, filtered
RECURSIVE ListFiles(_, _, _, _)
ListFiles(seq, tree, subdir, extensions) ==
    IF seq = <<>> THEN <<>>
    ELSE LET p == Head(seq)
             rest == ListFiles(Tail(seq), tree, subdir, extensions)
         IN  IF tree[p] # Absent /\ FilterPaths(p, subdir, extensions)
             THEN <<p>> \o rest
             ELSE rest

list_all_files(tree, subdir, extensions) ==
    ListFiles(AllPathsOrdered, tree, subdir, extensions)

\* get_changed_files: the diff of two trees with exact-content rename
\* detection (git diff -M), classified and filtered
get_changed_files(old_tree, new_tree, subdir, extensions) ==
    LET gone == {p \in AllPaths : old_tree[p] # Absent /\ new_tree[p] = Absent}
        new == {p \in AllPaths : old_tree[p] = Absent /\ new_tree[p] # Absent}
        renamed == {r \in gone \X new : old_tree[r[1]] = new_tree[r[2]]}
        added == new \ {r[2] : r \in renamed}
        deleted == gone \ {r[1] : r \in renamed}
        modified == {p \in AllPaths : /\ old_tree[p] # Absent
                                      /\ new_tree[p] # Absent
                                      /\ old_tree[p] # new_tree[p]}
    IN  [added |-> {p \in added : FilterPaths(p, subdir, extensions)},
         modified |-> {p \in modified : FilterPaths(p, subdir, extensions)},
         deleted |-> {p \in deleted : FilterPaths(p, subdir, extensions)},
         renamed |-> {r \in renamed : \/ InlineMatch(r[1], subdir, extensions)
                                      \/ InlineMatch(r[2], subdir, extensions)}]

\* read_file: the blob at the path in the tree, or FileNotFoundError
read_file(tree, path) ==
    IF tree[path] = Absent
    THEN [exc |-> "FileNotFoundError", data |-> None]
    ELSE [exc |-> "", data |-> tree[path]]

(***************************************************************************)
(* datasources/git_website_crawl.py: the pure helpers.                     *)
(***************************************************************************)
\* the characters of the model in ASCII order, for sorted()
Alphabet == <<" ", ",", ".", "/", ":", "D", "M", "P", "U", "\\",
              "a", "b", "c", "d", "m", "o", "p", "s", "t", "u", "x">>

CharCode(c) == CHOOSE i \in 1..Len(Alphabet) : Alphabet[i] = c

RECURSIVE StrLess(_, _)
StrLess(a, b) ==
    IF b = <<>> THEN FALSE
    ELSE IF a = <<>> THEN TRUE
    ELSE IF Head(a) # Head(b) THEN CharCode(Head(a)) < CharCode(Head(b))
    ELSE StrLess(Tail(a), Tail(b))

RECURSIVE Insert(_, _)
Insert(x, sorted) ==
    IF sorted = <<>> THEN <<x>>
    ELSE IF StrLess(Head(sorted), x) THEN <<Head(sorted)>> \o Insert(x, Tail(sorted))
    ELSE <<x>> \o sorted

RECURSIVE Sorted(_)
Sorted(seq) == IF seq = <<>> THEN <<>> ELSE Insert(Head(seq), Sorted(Tail(seq)))

RECURSIVE Join(_, _)
Join(parts, sep) ==
    IF parts = <<>> THEN <<>>
    ELSE IF Len(parts) = 1 THEN parts[1]
    ELSE parts[1] \o sep \o Join(Tail(parts), sep)

RECURSIVE CanonicalParts(_)
CanonicalParts(parts) ==
    IF parts = <<>> THEN <<>>
    ELSE LET rest == CanonicalParts(Tail(parts))
         IN  IF Strip(Head(parts), Whitespace) = <<>> THEN rest
             ELSE <<Strip(Lower(Head(parts)), Whitespace)>> \o rest

\* a faulty variant of _canonicalize_extensions: the entries keep their case
_canonicalize_extensions_cased(extensions_str) ==
    IF extensions_str = <<>> THEN <<>>
    ELSE Join(Sorted(Split(extensions_str, ",")), <<",">>)

_canonicalize_extensions(extensions_str) ==
    IF extensions_str = <<>> THEN <<>>
    ELSE Join(Sorted(CanonicalParts(Split(extensions_str, ","))), <<",">>)

\* a key that is missing from the parameters, or whose value is None
Missing == <<"None">>

\* the default branch
Main == <<"m", "a", "i", "n">>

\* params.get(key, default) or default
GetOr(value, default) ==
    IF value = Missing \/ value = <<>> THEN default ELSE value

\* _get_config_hash: the hash input; SHA-256 and its truncation to 16 hex
\* digits are modelled as injective on the hash inputs of the model
_get_config_hash(p) ==
    LET repo_url == p.repo_url
        branch == GetOr(p.branch, Main)
        subdir == GetOr(p.subdir, <<>>)
        extensions_str == GetOr(p.extensions, <<>>)
    IN  repo_url \o <<":">> \o branch \o <<":">> \o subdir \o <<":">>
            \o _canonicalize_extensions(extensions_str)

\* _normalize_path: ok is FALSE where the code raises ValueError
RECURSIVE StripDotSlash(_)
StripDotSlash(path) ==
    IF StartsWith(path, <<".", "/">>)
    THEN StripDotSlash(SubSeq(path, 3, Len(path)))
    ELSE path

_normalize_path(path) ==
    LET posix == StripDotSlash(LStrip(ReplaceBackslash(path), {"/"}))
        parts == Split(posix, "/")
    IN  [ok |-> <<".", ".">> \notin Range(parts), path |-> posix]

_make_source_url(config_hash, path) ==
    <<"git">> \o <<config_hash>> \o <<_normalize_path(path).path>>

BINARY_MAGIC_BYTES == {"PNG", "JPEG", "GIF8", "PK", "PDF", "ELF", "MZ"}

_is_binary_content(content) ==
    \/ BlobInfo(content).magic \in BINARY_MAGIC_BYTES
    \/ /\ BlobInfo(content).nulAt > 0
       /\ BlobInfo(content).nulAt <= BINARY_SAMPLE_SIZE

\* a faulty variant of _read_file_content: binary content is reported as a
\* transient error
_read_file_content_binary_transient(tree, path, fault) ==
    IF fault # "" THEN [content |-> None, error |-> fault, is_transient |-> TRUE]
    ELSE LET r == read_file(tree, path)
         IN  IF r.exc = "FileNotFoundError"
             THEN [content |-> None, error |-> "not_found", is_transient |-> FALSE]
             ELSE IF _is_binary_content(r.data)
             THEN [content |-> None, error |-> "binary", is_transient |-> TRUE]
             ELSE IF ~BlobInfo(r.data).utf8
             THEN [content |-> None, error |-> "non_utf8", is_transient |-> FALSE]
             ELSE [content |-> r.data, error |-> None, is_transient |-> FALSE]

\* _read_file_content: (content, error_reason, is_transient).  fault is what
\* client.read_file raises apart from FileNotFoundError: "" (nothing),
\* "IOError" or "Exception"
_read_file_content(tree, path, fault) ==
    IF fault = "IOError"
    THEN [content |-> None, error |-> "IOError", is_transient |-> TRUE]
    ELSE IF fault = "Exception"
    THEN [content |-> None, error |-> "Exception", is_transient |-> TRUE]
    ELSE LET r == read_file(tree, path)
         IN  IF r.exc = "FileNotFoundError"
             THEN [content |-> None, error |-> "not_found", is_transient |-> FALSE]
             ELSE IF _is_binary_content(r.data)
             THEN [content |-> None, error |-> "binary", is_transient |-> FALSE]
             ELSE IF ~BlobInfo(r.data).utf8
             THEN [content |-> None, error |-> "non_utf8", is_transient |-> FALSE]
             ELSE [content |-> r.data, error |-> None, is_transient |-> FALSE]

\* a faulty variant of _should_full_sync: an unchanged head asks for a full
\* sync
_should_full_sync_same_sha(commits, last_sha, current_sha) ==
    \/ last_sha = 0
    \/ last_sha = current_sha
    \/ ~is_sha_reachable(commits, last_sha, current_sha)
    \/ get_commit_count(commits, last_sha, current_sha) > MAX_COMMITS_FOR_INCREMENTAL

\* _should_full_sync
_should_full_sync(commits, last_sha, current_sha) ==
    IF last_sha = 0 THEN TRUE
    ELSE IF ~is_sha_reachable(commits, last_sha, current_sha) THEN TRUE
    ELSE IF get_commit_count(commits, last_sha, current_sha)
                > MAX_COMMITS_FOR_INCREMENTAL THEN TRUE
    ELSE FALSE

_get_file_paths_full(tree, subdir, extensions) ==
    list_all_files(tree, subdir, extensions)

\* _get_file_paths_incremental: the set the code builds; list(paths) gives
\* it in an order the code does not fix
_get_file_paths_incremental(old_tree, new_tree, subdir, extensions, failed_paths) ==
    LET changeset == get_changed_files(old_tree, new_tree, subdir, extensions)
    IN  changeset.added \cup changeset.modified
            \cup {r[2] : r \in changeset.renamed}
            \cup {p \in Range(failed_paths) : InlineMatch(p, subdir, extensions)}

\* list(paths): the order of a set's elements is not fixed by the code; the
\* model takes the walk order and its reverse
RECURSIVE InWalkOrder(_, _)
InWalkOrder(seq, S) ==
    IF seq = <<>> THEN <<>>
    ELSE IF Head(seq) \in S THEN <<Head(seq)>> \o InWalkOrder(Tail(seq), S)
    ELSE InWalkOrder(Tail(seq), S)

Reverse(seq) == [i \in 1..Len(seq) |-> seq[Len(seq) + 1 - i]]

Orderings(S) ==
    {InWalkOrder(AllPathsOrdered, S), Reverse(InWalkOrder(AllPathsOrdered, S))}

\* a faulty variant of LimitedPaths: the list is stored whole
LimitedPathsUncapped(paths) == paths

\* a faulty variant of LimitedPaths: the last MAX_FAILED_PATHS paths are kept
LimitedPathsNewest(paths) ==
    IF Len(paths) <= MAX_FAILED_PATHS THEN paths
    ELSE SubSeq(paths, Len(paths) - MAX_FAILED_PATHS + 1, Len(paths))

\* _save_failed_paths: paths[:MAX_FAILED_PATHS]
LimitedPaths(paths) ==
    IF Len(paths) <= MAX_FAILED_PATHS THEN paths
    ELSE SubSeq(paths, 1, MAX_FAILED_PATHS)

(***************************************************************************)
(* _process_files_streaming and the loop of _get_website_crawl over it.    *)
(***************************************************************************)
\* a faulty variant of ProcessPath: an exception of the read other than
\* IOError leaves the generator
ProcessPathUncaught(g, tree, config_hash, path, fault) ==
    [gen |-> [g EXCEPT !.i = @ + 1, !.attempted = @ + 1],
     yield |-> FALSE,
     raise |-> (fault = "Exception")]

\* one iteration of the for loop of _process_files_streaming on `path`:
\* the generator's locals afterwards (gen), whether the iteration ends at
\* the yield of a full batch, and whether an exception leaves the generator
\* (never: lines 696-700 and 635-661 catch every exception)
ProcessPath(g, tree, config_hash, path, fault) ==
    LET attempted == g.attempted + 1
        normalized == _normalize_path(path)
        r == _read_file_content(tree, path, fault)
        detail == [title |-> normalized.path,
                   content |-> r.content,
                   source_url |-> _make_source_url(config_hash, normalized.path)]
        next == [g EXCEPT !.i = @ + 1, !.attempted = attempted]
    IN  IF ~normalized.ok
        THEN [gen |-> next, yield |-> FALSE, raise |-> FALSE]
        ELSE IF r.content = None
        THEN [gen |-> [next EXCEPT !.batch_failed =
                          IF r.is_transient THEN Append(@, path) ELSE @],
              yield |-> FALSE, raise |-> FALSE]
        ELSE IF BlobInfo(r.content).size > MAX_FILE_SIZE
        THEN [gen |-> next, yield |-> FALSE, raise |-> FALSE]
        ELSE [gen |-> [next EXCEPT !.batch = Append(@, detail)],
              yield |-> (Len(g.batch) + 1 >= BATCH_SIZE),
              raise |-> FALSE]

\* what a tuple yielded by _process_files_streaming holds
YieldedTuple(batch, batch_failed, attempted) ==
    [items |-> Len(batch), failed |-> Len(batch_failed), attempted |-> attempted]

\* a faulty variant of AfterYield: attempted counts the paths of one batch
AfterYieldPerBatch(g) ==
    [g EXCEPT !.batch = <<>>, !.batch_failed = <<>>, !.attempted = 0]

\* a faulty variant of AfterYield: the descriptors of a yielded batch stay
\* in the list
AfterYieldKeepsBatch(g) == [g EXCEPT !.batch_failed = <<>>]

\* lines 727-729: the generator is resumed after the yield of a full batch
AfterYield(g) == [g EXCEPT !.batch = <<>>, !.batch_failed = <<>>]

\* a faulty variant of YieldRemaining: a tuple with nothing in it is not
\* yielded
YieldRemainingNonEmpty(batch, batch_failed, attempted) ==
    batch # <<>> \/ batch_failed # <<>>

\* a faulty variant of YieldRemaining: only a batch that holds failures is
\* yielded after the loop
YieldRemainingOnlyFailed(batch, batch_failed, attempted) ==
    batch_failed # <<>>

\* the test before the yield that follows the for loop
YieldRemaining(batch, batch_failed, attempted) ==
    batch # <<>> \/ batch_failed # <<>> \/ attempted > 0

\* a faulty variant of ConsumeBatch: completed counts the descriptors of the
\* tuple instead of accumulating
ConsumeBatchPerBatch(c, batch, batch_failed, batch_attempted) ==
    LET completed == Len(batch)
        is_last == completed >= c.total
    IN  [crawl |-> [c EXCEPT !.completed = completed,
                             !.all_failed = @ \o batch_failed],
         record |-> [items |-> batch,
                     status |-> IF is_last THEN "completed" ELSE "processing",
                     total |-> c.total,
                     completed |-> completed]]

\* the body of the loop of _get_website_crawl for one yielded tuple
ConsumeBatch(c, batch, batch_failed, batch_attempted) ==
    LET completed == c.completed + batch_attempted
        is_last == completed >= c.total
    IN  [crawl |-> [c EXCEPT !.completed = completed,
                             !.all_failed = @ \o batch_failed],
         record |-> [items |-> batch,
                     status |-> IF is_last THEN "completed" ELSE "processing",
                     total |-> c.total,
                     completed |-> completed]]

\* a faulty variant of EmptyCompleted: the record of an empty crawl does not
\* close the stream
EmptyProcessing ==
    [items |-> <<>>, status |-> "processing", total |-> 0, completed |-> 0]

EmptyCompleted ==
    [items |-> <<>>, status |-> "completed", total |-> 0, completed |-> 0]

(***************************************************************************)
(* The state.                                                              *)
(***************************************************************************)
VARIABLES
    params,        \* datasource_parameters of the one configuration
    commits,       \* every commit ever pushed: [parent, tree, span]
    remote_head,   \* the remote branch
    cache_exists,  \* os.path.exists(client._cache_path)
    cache_head,    \* refs/remotes/origin/<branch> in the cache
    storage,       \* session.storage: the keys git_sha:{h} and git_failed:{h}
    pc,            \* where the crawl generator stands
    cont,          \* at a yield: what follows when the host resumes
    crawl,         \* the locals of _get_website_crawl
    gen,           \* the locals of _process_files_streaming
    records,       \* the records the current crawl has yielded to the host
    result,        \* how the last crawl ended
    crawls,        \* crawl invocations so far
    store_faults,  \* state-store reads that failed so far
    obs,           \* what happened in the current crawl, for the properties
    probe,         \* a call of a pure helper: its arguments and its results
    ssh,           \* a GitClient operation over SSH: the key file, the environment
    late,          \* storage.set calls whose thread outlived its join
    proc           \* a process that runs two GitClient operations over SSH

vars == <<params, commits, remote_head, cache_exists, cache_head, storage,
          pc, cont, crawl, gen, records, result, crawls, store_faults, obs,
          probe, ssh, late, proc>>

NoCrawl ==
    [config_hash |-> <<>>, last_sha |-> 0, failed_paths |-> <<>>,
     current_sha |-> 0, is_full_sync |-> FALSE, paths |-> <<>>, total |-> 0,
     completed |-> 0, all_failed |-> <<>>]

NoGen ==
    [i |-> 0, batch |-> <<>>, batch_failed |-> <<>>, attempted |-> 0]

NoObs ==
    [pre_sha |-> 0, pre_failed |-> None, pre_cache |-> FALSE, pre_head |-> 0,
     pre_remote |-> 0, fetched |-> FALSE, decided |-> FALSE, faults |-> <<>>,
     sha_read_failed |-> FALSE, failed_read_failed |-> FALSE, local_sha |-> 0,
     writes |-> <<>>, yields |-> <<>>]

\* no helper is being called on its own
NoProbe == [fn |-> "", args |-> <<>>, out |-> <<>>]

\* the datasource after construction: nothing cached, nothing stored
Constructed ==
    /\ params \in Configs
    /\ \E t \in InitialTrees : commits = <<[parent |-> 0, tree |-> t, span |-> 1]>>
    /\ remote_head = 1
    /\ cache_exists = FALSE
    /\ cache_head = 0
    /\ storage = [sha |-> 0, failed |-> None]
    /\ pc = "idle"
    /\ cont = ""
    /\ crawl = NoCrawl
    /\ gen = NoGen
    /\ records = <<>>
    /\ result = ""
    /\ crawls = 0
    /\ store_faults = 0
    /\ obs = NoObs
    /\ late = <<>>

\* no GitClient operation over SSH is running; GIT_SSH_COMMAND is not set
NoSsh ==
    [op |-> "", pc |-> "idle", ssh_private_key |-> <<>>, ssh_key_path |-> FALSE,
     file_exists |-> FALSE, file_text |-> <<>>, env_set |-> FALSE, error |-> ""]

\* the GitClient instances of two crawls that run in one process
SshClients == {1, 2}

\* no operation over SSH runs in the process: os.environ holds no
\* GIT_SSH_COMMAND (0), no key file exists, no git subprocess runs
NoProc ==
    [environ |-> 0,
     clients |-> [c \in SshClients |->
                    [op |-> "", pc |-> "idle", ssh_key_path |-> FALSE,
                     file_exists |-> FALSE, git_env |-> 0, ops |-> 0]]]

Init == Constructed /\ probe = NoProbe /\ ssh = NoSsh /\ proc = NoProc

(***************************************************************************)
(* The environment: the remote repository and the cache directory.         *)
(***************************************************************************)
\* commits are pushed on top of the remote branch
Push ==
    /\ pc = "idle"
    /\ crawls < MaxCrawls
    /\ Len(commits) < MaxCommits
    /\ \E t \in Trees, n \in PushSpans :
          commits' = Append(commits, [parent |-> remote_head, tree |-> t, span |-> n])
    /\ remote_head' = Len(commits) + 1
    /\ UNCHANGED <<late, proc, ssh, probe, params, cache_exists, cache_head, storage, pc, cont, crawl,
                   gen, records, result, crawls, store_faults, obs>>

\* the branch is rewritten: its new head does not descend from the old one
ForcePush ==
    /\ pc = "idle"
    /\ crawls < MaxCrawls
    /\ Len(commits) < MaxCommits
    /\ \E t \in Trees, par \in Ancestors(commits, commits[remote_head].parent) \cup {0} :
          commits' = Append(commits, [parent |-> par, tree |-> t, span |-> 1])
    /\ remote_head' = Len(commits) + 1
    /\ UNCHANGED <<late, proc, ssh, probe, params, cache_exists, cache_head, storage, pc, cont, crawl,
                   gen, records, result, crawls, store_faults, obs>>

\* the cache directory under /tmp goes away between two crawls
CacheRemoved ==
    /\ pc = "idle"
    /\ crawls < MaxCrawls
    /\ cache_exists
    /\ cache_exists' = FALSE
    /\ cache_head' = 0
    /\ UNCHANGED <<late, proc, ssh, probe, params, commits, remote_head, storage, pc, cont, crawl,
                   gen, records, result, crawls, store_faults, obs>>

(***************************************************************************)
(* _get_website_crawl, from one suspension point to the next.              *)
(***************************************************************************)
\* a faulty variant of _get_last_sha: the value a late read left behind is
\* returned after a timeout
_get_last_sha_stale(fault) == storage.sha

\* _get_last_sha: the stored SHA, or None when the key is absent or the read
\* times out or raises (fault)
_get_last_sha(fault) == IF fault THEN 0 ELSE storage.sha

\* a faulty variant of _get_failed_paths: the read is not bounded and gives
\* the stored list however long the store takes
_get_failed_paths_unbounded(fault) ==
    IF storage.failed = None THEN <<>> ELSE storage.failed

\* _get_failed_paths: the stored list, or [] when the key is absent or the
\* read times out or raises (fault)
_get_failed_paths(fault) ==
    IF fault \/ storage.failed = None THEN <<>> ELSE storage.failed

\* a faulty variant of FastPath: the comparison of the two SHAs is inverted
FastPathInverted(exists, last_sha, failed_paths, local_sha) ==
    exists /\ last_sha # 0 /\ failed_paths = <<>> /\ local_sha # 0
        /\ local_sha # last_sha

\* lines 119-130: the test of the fast path; local_sha is 0 when
\* get_head_sha was not called or raised
FastPath(exists, last_sha, failed_paths, local_sha) ==
    exists /\ last_sha # 0 /\ failed_paths = <<>> /\ local_sha # 0
        /\ local_sha = last_sha

\* lines 70-144: the parameters, the stored state and the fast path
CrawlStart ==
    /\ pc = "idle"
    /\ crawls < MaxCrawls
    /\ crawls' = crawls + 1
    /\ result' = ""
    /\ gen' = NoGen
    /\ \E sha_fault, failed_fault, head_resolves \in BOOLEAN :
          LET n_faults == (IF sha_fault THEN 1 ELSE 0)
                            + (IF failed_fault THEN 1 ELSE 0)
              last_sha == _get_last_sha(sha_fault)
              failed_paths == _get_failed_paths(failed_fault)
              tries == cache_exists /\ last_sha # 0 /\ failed_paths = <<>>
              local_sha == IF tries /\ head_resolves THEN cache_head ELSE 0
          IN  /\ store_faults + n_faults <= MaxStoreFaults
              /\ store_faults' = store_faults + n_faults
              /\ obs' = [NoObs EXCEPT !.pre_sha = storage.sha,
                                      !.pre_failed = storage.failed,
                                      !.pre_cache = cache_exists,
                                      !.pre_head = cache_head,
                                      !.pre_remote = remote_head,
                                      !.sha_read_failed = sha_fault,
                                      !.failed_read_failed = failed_fault,
                                      !.local_sha = local_sha]
              /\ crawl' = [NoCrawl EXCEPT !.config_hash = _get_config_hash(params),
                                          !.last_sha = last_sha,
                                          !.failed_paths = failed_paths]
              /\ IF FastPath(cache_exists, last_sha, failed_paths, local_sha)
                 THEN /\ records' = <<EmptyCompleted>>
                      /\ pc' = "yielded"
                      /\ cont' = "return"
                 ELSE /\ records' = <<>>
                      /\ pc' = "ensure_cloned"
                      /\ cont' = ""
    /\ UNCHANGED <<late, proc, ssh, probe, params, commits, remote_head, cache_exists, cache_head, storage>>

\* line 149: ensure_cloned raises GitClientError (clone or fetch refused);
\* the exception leaves the generator
CrawlCloneFails ==
    /\ pc = "ensure_cloned"
    /\ pc' = "idle"
    /\ result' = "raised"
    /\ UNCHANGED <<late, proc, ssh, probe, params, commits, remote_head, cache_exists, cache_head, storage,
                   cont, crawl, gen, records, crawls, store_faults, obs>>

\* a faulty variant of CrawlHeadFails: the fetched head is stored before the
\* exception leaves the generator
CrawlHeadFailsAfterSave ==
    /\ pc = "ensure_cloned"
    /\ cache_exists' = TRUE
    /\ cache_head' = remote_head
    /\ obs' = [obs EXCEPT !.fetched = TRUE]
    /\ storage' = [storage EXCEPT !.sha = remote_head]
    /\ pc' = "idle"
    /\ result' = "raised"
    /\ UNCHANGED <<late, proc, ssh, probe, params, commits, remote_head, cont, crawl, gen,
                   records, crawls, store_faults>>

\* lines 149-154: ensure_cloned succeeds and get_head_sha raises
CrawlHeadFails ==
    /\ pc = "ensure_cloned"
    /\ cache_exists' = TRUE
    /\ cache_head' = remote_head
    /\ obs' = [obs EXCEPT !.fetched = TRUE]
    /\ pc' = "idle"
    /\ result' = "raised"
    /\ UNCHANGED <<late, proc, ssh, probe, params, commits, remote_head, storage, cont, crawl, gen,
                   records, crawls, store_faults>>

\* lines 149-218: clone or fetch, the head, the early return, the sync mode
\* and the path list, up to the first yield or the first blob read
CrawlFetched ==
    /\ pc = "ensure_cloned"
    /\ cache_exists' = TRUE
    /\ cache_head' = remote_head
    /\ LET current_sha == remote_head
           subdir == params.subdir
           extensions == parse_extensions(params.extensions)
           is_full_sync == _should_full_sync(commits, crawl.last_sha, current_sha)
           new_tree == TreeAt(commits, current_sha)
       IN  IF /\ crawl.last_sha # 0
              /\ crawl.last_sha = current_sha
              /\ crawl.failed_paths = <<>>
           THEN /\ crawl' = [crawl EXCEPT !.current_sha = current_sha]
                /\ obs' = [obs EXCEPT !.fetched = TRUE]
                /\ records' = <<EmptyCompleted>>
                /\ pc' = "yielded"
                /\ cont' = "return"
           ELSE \E paths \in
                    IF is_full_sync
                    THEN {_get_file_paths_full(new_tree, subdir, extensions)}
                    ELSE Orderings(_get_file_paths_incremental(
                             TreeAt(commits, crawl.last_sha), new_tree,
                             subdir, extensions, crawl.failed_paths)) :
                   /\ crawl' = [crawl EXCEPT !.current_sha = current_sha,
                                             !.is_full_sync = is_full_sync,
                                             !.paths = paths,
                                             !.total = Len(paths)]
                   /\ obs' = [obs EXCEPT !.fetched = TRUE, !.decided = TRUE]
                   /\ IF Len(paths) = 0
                      THEN /\ records' = <<EmptyCompleted>>
                           /\ pc' = "yielded"
                           /\ cont' = "save_empty"
                      ELSE /\ records' = <<>>
                           /\ pc' = "stream"
                           /\ cont' = ""
    /\ UNCHANGED <<late, proc, ssh, probe, params, commits, remote_head, storage, gen, result, crawls, store_faults>>

\* lines 688-729: one path of the list, and the record of the batch it fills
CrawlProcessPath ==
    /\ pc = "stream"
    /\ gen.i < crawl.total
    /\ \E fault \in {"", "IOError", "Exception"} :
          /\ fault # "" => /\ Len(obs.faults) < MaxIoFaults
                            /\ _normalize_path(crawl.paths[gen.i + 1]).ok
          /\ LET path == crawl.paths[gen.i + 1]
                 g == ProcessPath(gen, TreeAt(commits, cache_head),
                                  crawl.config_hash, path, fault)
                 out == ConsumeBatch(crawl, g.gen.batch, g.gen.batch_failed,
                                     g.gen.attempted)
             IN  /\ obs' = [obs EXCEPT
                       !.faults = IF fault # "" THEN Append(@, path) ELSE @,
                       !.yields = IF ~g.raise /\ g.yield
                                  THEN Append(@, YieldedTuple(g.gen.batch,
                                                  g.gen.batch_failed, g.gen.attempted))
                                  ELSE @]
                 /\ IF g.raise
                    THEN /\ gen' = g.gen
                         /\ pc' = "idle"
                         /\ result' = "raised"
                         /\ UNCHANGED <<crawl, records, cont>>
                    ELSE IF g.yield
                    THEN /\ crawl' = out.crawl
                         /\ records' = Append(records, out.record)
                         /\ gen' = AfterYield(g.gen)
                         /\ pc' = "yielded"
                         /\ cont' = "stream"
                         /\ UNCHANGED result
                    ELSE /\ gen' = g.gen
                         /\ UNCHANGED <<crawl, records, pc, cont, result>>
    /\ UNCHANGED <<late, proc, ssh, probe, params, commits, remote_head, cache_exists, cache_head, storage,
                   crawls, store_faults>>

\* _save_sha and _save_failed_paths, lines 249-251 and 213-215
\* _save_sha then _save_failed_paths: each set is joined for a bounded time;
\* a set that raised or has not returned by then leaves its key as it was;
\* its thread is not stopped and is kept in `late`
SaveState(sha, paths) ==
    \E sha_saved, failed_saved \in BOOLEAN :
        LET n_faults == (IF sha_saved THEN 0 ELSE 1)
                            + (IF failed_saved THEN 0 ELSE 1)
        IN  /\ store_faults + n_faults <= MaxStoreFaults
            /\ store_faults' = store_faults + n_faults
            /\ storage' = [sha |-> IF sha_saved THEN sha ELSE storage.sha,
                           failed |-> IF failed_saved THEN LimitedPaths(paths)
                                      ELSE storage.failed]
            /\ obs' = [obs EXCEPT !.writes =
                          @ \o << [key |-> "git_sha", after |-> Len(records),
                                   saved |-> sha_saved],
                                  [key |-> "git_failed", after |-> Len(records),
                                   saved |-> failed_saved] >>]
            /\ late' = late
                  \o (IF sha_saved THEN <<>>
                      ELSE <<[key |-> "git_sha", value |-> sha]>>)
                  \o (IF failed_saved THEN <<>>
                      ELSE <<[key |-> "git_failed", value |-> LimitedPaths(paths)]>>)

\* lines 731-733 and 247-253: the for loop is over; the remaining tuple is
\* yielded, or the generator ends and the state is saved
CrawlStreamEnd ==
    /\ pc = "stream"
    /\ gen.i = crawl.total
    /\ IF YieldRemaining(gen.batch, gen.batch_failed, gen.attempted)
       THEN LET out == ConsumeBatch(crawl, gen.batch, gen.batch_failed, gen.attempted)
            IN  /\ crawl' = out.crawl
                /\ records' = Append(records, out.record)
                /\ pc' = "yielded"
                /\ cont' = "save"
                /\ obs' = [obs EXCEPT !.yields =
                              Append(@, YieldedTuple(gen.batch, gen.batch_failed,
                                                     gen.attempted))]
                /\ UNCHANGED <<storage, result, store_faults, late>>
       ELSE /\ SaveState(crawl.current_sha, crawl.all_failed)
            /\ pc' = "idle"
            /\ result' = "returned"
            /\ UNCHANGED <<crawl, records, cont>>
    /\ UNCHANGED <<proc, ssh, probe, params, commits, remote_head, cache_exists,
                   cache_head, gen, crawls>>

\* a faulty variant of ResumeStream: the state is saved after every batch
ResumeStreamCheckpoint ==
    /\ SaveState(crawl.current_sha, crawl.all_failed)
    /\ pc' = "stream"
    /\ UNCHANGED result

\* lines 244-245 and 225: after the yield of a full batch the loop goes on
ResumeStream ==
    /\ pc' = "stream"
    /\ UNCHANGED <<storage, result, obs, store_faults, late>>

\* the host asks for the next record: the generator runs on from its yield
HostResume ==
    /\ pc = "yielded"
    /\ cont' = ""
    /\ CASE cont = "return" ->
              /\ pc' = "idle"
              /\ result' = "returned"
              /\ UNCHANGED <<storage, obs, store_faults, late>>
         [] cont = "save_empty" ->
              /\ SaveState(crawl.current_sha, <<>>)
              /\ pc' = "idle"
              /\ result' = "returned"
         [] cont = "stream" ->
              ResumeStream
         [] cont = "save" ->
              /\ SaveState(crawl.current_sha, crawl.all_failed)
              /\ pc' = "idle"
              /\ result' = "returned"
    /\ UNCHANGED <<proc, ssh, probe, params, commits, remote_head, cache_exists,
                   cache_head, crawl, gen, records, crawls>>

\* a faulty variant of HostCancel: the generator saves its progress when it
\* is closed
HostCancelWithSave ==
    /\ pc = "yielded"
    /\ pc' = "idle"
    /\ cont' = ""
    /\ result' = "cancelled"
    /\ storage' = [sha |-> crawl.current_sha,
                   failed |-> LimitedPaths(crawl.all_failed)]
    /\ UNCHANGED <<late, proc, ssh, probe, params, commits, remote_head, cache_exists, cache_head,
                   crawl, gen, records, crawls, store_faults, obs>>

\* the host stops consuming: the generator is closed at its yield
\* (GeneratorExit is no Exception, no handler of the generator catches it)
HostCancel ==
    /\ pc = "yielded"
    /\ pc' = "idle"
    /\ cont' = ""
    /\ result' = "cancelled"
    /\ UNCHANGED <<late, proc, ssh, probe, params, commits, remote_head, cache_exists, cache_head, storage,
                   crawl, gen, records, crawls, store_faults, obs>>

Next ==
    \/ Push
    \/ ForcePush
    \/ CacheRemoved
    \/ CrawlStart
    \/ CrawlCloneFails
    \/ CrawlHeadFails
    \/ CrawlFetched
    \/ CrawlProcessPath
    \/ CrawlStreamEnd
    \/ HostResume
    \/ HostCancel

Spec == Init /\ [][Next]_vars

(***************************************************************************)
(* The pure helpers, called on their own with arguments of bounded sets.   *)
(***************************************************************************)
(***************************************************************************)
(* The crawl next to what runs concurrently with it: the remote, a crawl   *)
(* of another configuration on the same cache directory, and the threads   *)
(* of storage.set calls that were given up.                                *)
(***************************************************************************)
\* commits are pushed while the crawl is running
PushDuringCrawl ==
    /\ pc # "idle"
    /\ Len(commits) < MaxCommits
    /\ \E t \in Trees :
          commits' = Append(commits, [parent |-> remote_head, tree |-> t, span |-> 1])
    /\ remote_head' = Len(commits) + 1
    /\ UNCHANGED <<late, proc, ssh, probe, params, cache_exists, cache_head, storage,
                   pc, cont, crawl, gen, records, result, crawls, store_faults, obs>>

\* a crawl of another config_hash with the same repo_url and branch, hence
\* the same _cache_path, runs ensure_cloned while this crawl is between its
\* own fetch and its return: origin/<branch> of the shared cache moves
PeerFetch ==
    /\ pc \in {"stream", "yielded"}
    /\ cache_head # remote_head
    /\ cache_exists' = TRUE
    /\ cache_head' = remote_head
    /\ UNCHANGED <<late, proc, ssh, probe, params, commits, remote_head, storage,
                   pc, cont, crawl, gen, records, result, crawls, store_faults, obs>>

\* the thread of a storage.set that was still alive after join(timeout=10)
\* runs on and its set takes effect
LateWriteLands ==
    /\ \E i \in DOMAIN late :
          /\ storage' = IF late[i].key = "git_sha"
                        THEN [storage EXCEPT !.sha = late[i].value]
                        ELSE [storage EXCEPT !.failed = late[i].value]
          /\ late' = SubSeq(late, 1, i - 1) \o SubSeq(late, i + 1, Len(late))
    /\ UNCHANGED <<proc, ssh, probe, params, commits, remote_head, cache_exists,
                   cache_head, pc, cont, crawl, gen, records, result, crawls,
                   store_faults, obs>>

\* one configuration and one first commit
InitShared ==
    /\ Init
    /\ params.subdir = <<"d">>
    /\ commits[1].tree = 1

NextShared ==
    \/ Next
    \/ PushDuringCrawl
    \/ PeerFetch
    \/ LateWriteLands

SpecShared == InitShared /\ [][NextShared]_vars

\* datasource_parameters given to _get_config_hash: the directory d:x and
\* the extension x: are legal names that hold the separator of the hash input
HashParams ==
    [repo_url : {<<"/", "s">>, <<"/", "t">>},
     branch : {<<"m">>, <<"b">>},
     subdir : {<<>>, <<"d">>, <<"d", ":", "x">>},
     extensions : {<<>>, <<"M">>, <<"x", ":">>}]

\* the entries of an extensions parameter, as the user means them
ExtensionEntries == {<< <<"m">> >>, << <<"m">>, <<"d", "u">> >>}

\* the spellings of one entry: either case, a blank before or after
EntrySpellings(e) ==
    {pad[1] \o c \o pad[2] :
        pad \in {<< <<>>, <<>> >>, << <<" ">>, <<>> >>, << <<>>, <<" ">> >>},
        c \in {e, Upper(e)}}

\* the extensions strings that hold the given entries in some order, case
\* and surrounding whitespace
ExtensionSpellings(entries) ==
    IF Len(entries) = 1 THEN EntrySpellings(entries[1])
    ELSE {x \o <<",">> \o y : x \in EntrySpellings(entries[1]),
                              y \in EntrySpellings(entries[2])}
         \cup {y \o <<",">> \o x : x \in EntrySpellings(entries[1]),
                                  y \in EntrySpellings(entries[2])}

\* a call of a helper that has not returned yet
Call(fn, args) == [fn |-> fn, args |-> args, out |-> <<>>]

\* the calls of _get_config_hash: two parameter sets, or one configuration
\* spelled in two ways: branch and subdir missing, empty or written out, the
\* extensions entries in any order, case and padding
ConfigHashCalls ==
    \/ \E a, b \in HashParams : probe = Call("_get_config_hash", <<a, b>>)
    \/ \E entries \in ExtensionEntries :
         \E br \in {Missing, <<>>, Main}, sd \in {Missing, <<>>},
            e1 \in ExtensionSpellings(entries), e2 \in ExtensionSpellings(entries) :
            probe = Call("_get_config_hash",
                         << [repo_url |-> RepoUrl, branch |-> br, subdir |-> sd,
                             extensions |-> e1],
                            [repo_url |-> RepoUrl, branch |-> Main, subdir |-> <<>>,
                             extensions |-> e2] >>)

\* the paths given to _normalize_path: every combination of slashes, dots,
\* backslashes and a name character up to MaxPathLen characters
PathChars == {"/", ".", "\\", "w"}

NormalizePathCalls ==
    \E n \in 0..MaxPathLen : \E path \in [1..n -> PathChars] :
        probe = Call("_normalize_path", <<path>>)

\* the texts and credentials maps given to mask_credentials
MaskChars == {"a", "b", "*"}

StringsUpTo(chars, n) == UNION {[1..k -> chars] : k \in 0..n}

SecretValues == StringsUpTo(MaskChars, MaxSecretLen) \cup {NotAString}

MaskCredentialsCalls ==
    \E text \in StringsUpTo(MaskChars, MaxTextLen), k \in 0..MaxCredentials :
        \E credentials \in [1..k -> SecretValues] :
            probe = Call("mask_credentials", <<text, credentials>>)

\* str(e) of a GitCommandError: the command line and the stderr of git, made
\* of words and of URLs with and without user:password@
UrlWithCredentials == <<"s", ":", "/", "/", "u", ":", "p", "@", "h", "/", "r">>
UrlWithoutCredentials == <<"s", ":", "/", "/", "h", "/", "r">>
Word == <<"e">>
Segments == {UrlWithCredentials, UrlWithoutCredentials, Word}

RECURSIVE JoinSegments(_)
JoinSegments(segments) ==
    IF segments = <<>> THEN <<>>
    ELSE IF Len(segments) = 1 THEN segments[1]
    ELSE segments[1] \o <<" ">> \o JoinSegments(Tail(segments))

MaskUrlCalls ==
    \E k \in 1..MaxSegments : \E segments \in [1..k -> Segments] :
        probe = Call("mask_url", <<JoinSegments(segments)>>)

\* the subdir strings a user can configure: a directory name with blanks
\* and slashes around it
SubdirChars == {" ", "/", "d"}

\* the filters are called with the configured subdir, the parsed extensions
\* and a path of a tree of the repository
FilterCalls ==
    \E subdir \in StringsUpTo(SubdirChars, MaxSubdirLen),
       extensions_str \in {<<>>, <<"m">>, <<" ", "M">>, <<".", "m">>},
       path \in AllPaths :
        probe = Call("filter", <<path, subdir, parse_extensions(extensions_str)>>)

InitPure ==
    /\ Constructed
    /\ params.subdir = <<>>
    /\ commits[1].tree = 1
    /\ ssh = NoSsh
    /\ proc = NoProc
    /\ \/ ConfigHashCalls
       \/ NormalizePathCalls
       \/ MaskCredentialsCalls
       \/ MaskUrlCalls
       \/ FilterCalls

\* _get_config_hash is called on each of the two parameter sets
ApplyConfigHash ==
    /\ probe.fn = "_get_config_hash"
    /\ probe.out = <<>>
    /\ probe' = [probe EXCEPT !.out = <<_get_config_hash(probe.args[1]),
                                        _get_config_hash(probe.args[2])>>]
    /\ UNCHANGED <<late, proc, ssh, params, commits, remote_head, cache_exists, cache_head,
                   storage, pc, cont, crawl, gen, records, result, crawls,
                   store_faults, obs>>

\* _normalize_path is called on a path and, where it returns, on its result
ApplyNormalizePath ==
    /\ probe.fn = "_normalize_path"
    /\ probe.out = <<>>
    /\ LET once == _normalize_path(probe.args[1])
       IN  probe' = [probe EXCEPT !.out =
                        IF once.ok THEN <<once, _normalize_path(once.path)>>
                        ELSE <<once>>]
    /\ UNCHANGED <<late, proc, ssh, params, commits, remote_head, cache_exists, cache_head,
                   storage, pc, cont, crawl, gen, records, result, crawls,
                   store_faults, obs>>

ApplyMaskCredentials ==
    /\ probe.fn = "mask_credentials"
    /\ probe.out = <<>>
    /\ probe' = [probe EXCEPT !.out =
                    <<mask_credentials(probe.args[1], probe.args[2])>>]
    /\ UNCHANGED <<late, proc, ssh, params, commits, remote_head, cache_exists, cache_head,
                   storage, pc, cont, crawl, gen, records, result, crawls,
                   store_faults, obs>>

\* git_client.py lines 174-177, 204-206, 228-230: the message of the
\* GitClientError raised for a GitCommandError whose text is probe.args[1]
ApplyMaskUrl ==
    /\ probe.fn = "mask_url"
    /\ probe.out = <<>>
    /\ LET error_msg == mask_url(probe.args[1])
       IN  probe' = [probe EXCEPT !.out = <<(<<"F", ":", " ">> \o error_msg)>>]
    /\ UNCHANGED <<late, proc, ssh, params, commits, remote_head, cache_exists, cache_head,
                   storage, pc, cont, crawl, gen, records, result, crawls,
                   store_faults, obs>>

\* one path is put to filter_by_subdir and filter_by_extensions as
\* get_changed_files.filter_paths and list_all_files call them, and to the
\* inline test of get_changed_files and _get_file_paths_incremental
ApplyFilter ==
    /\ probe.fn = "filter"
    /\ probe.out = <<>>
    /\ probe' = [probe EXCEPT !.out =
                    <<FilterPaths(probe.args[1], probe.args[2], probe.args[3]),
                      InlineMatch(probe.args[1], probe.args[2], probe.args[3])>>]
    /\ UNCHANGED <<late, proc, ssh, params, commits, remote_head, cache_exists, cache_head,
                   storage, pc, cont, crawl, gen, records, result, crawls,
                   store_faults, obs>>

NextPure ==
    \/ ApplyConfigHash
    \/ ApplyNormalizePath
    \/ ApplyMaskCredentials
    \/ ApplyMaskUrl
    \/ ApplyFilter

SpecPure == InitPure /\ [][NextPure]_vars

(***************************************************************************)
(* git_client.py: clone, fetch and connection test over an SSH URL.        *)
(***************************************************************************)
\* the ssh_private_key of the credentials: absent, or a key as the UI hands
\* it over, with real or literal line breaks, CRLF, or padding
SshKeys ==
    { <<>>,
      <<"k">>,
      <<"k", "\n">>,
      <<"k", "\n", "k">>,
      <<"k", "\\", "n", "k">>,
      <<"k", "\r", "\n", "k">>,
      <<" ", "k", "\n", " ">> }

SshOperations == {"_clone_repo", "_fetch_repo", "test_connection"}

\* where _setup_ssh_environment and _cleanup_ssh_key can fail
SetupFaults == {"none", "mkstemp", "write", "chmod"}
CleanupFaults == {"none", "open", "unlink"}

\* ssh_key.encode(), the bytes written to the key file
KeyFileText(ssh_key) == ssh_key

InitSsh ==
    /\ Constructed
    /\ params.subdir = <<>>
    /\ commits[1].tree = 1
    /\ probe = NoProbe
    /\ proc = NoProc
    /\ \E key \in SshKeys : ssh = [NoSsh EXCEPT !.ssh_private_key = key]

\* _clone_repo, _fetch_repo or test_connection is entered; _fetch_repo opens
\* the cached repository first, which raises for a broken cache
SshStart ==
    /\ ssh.pc = "idle"
    /\ ssh.op = ""
    /\ \E op \in SshOperations, opens \in BOOLEAN :
          /\ (op # "_fetch_repo" => opens)
          /\ ssh' = [ssh EXCEPT !.op = op,
                                !.pc = IF opens THEN "setup" ELSE "cleanup",
                                !.error = IF opens THEN "" ELSE "GitClientError"]
    /\ UNCHANGED <<late, proc, probe, params, commits, remote_head, cache_exists, cache_head,
                   storage, pc, cont, crawl, gen, records, result, crawls,
                   store_faults, obs>>

\* _setup_ssh_environment, lines 103-122
SshSetup ==
    /\ ssh.pc = "setup"
    /\ IF ssh.ssh_private_key = <<>>
       THEN ssh' = [ssh EXCEPT !.pc = "git"]
       ELSE \E fault \in SetupFaults :
              ssh' = CASE fault = "none" ->
                            [ssh EXCEPT !.file_exists = TRUE,
                                        !.file_text = KeyFileText(ssh.ssh_private_key),
                                        !.env_set = TRUE,
                                        !.ssh_key_path = TRUE,
                                        !.pc = "git"]
                       [] fault = "mkstemp" ->
                            [ssh EXCEPT !.pc = "cleanup", !.error = "raised"]
                       [] fault = "write" ->
                            \* except: os.close(fd), os.unlink(key_path), raise
                            [ssh EXCEPT !.pc = "cleanup", !.error = "raised"]
                       [] fault = "chmod" ->
                            \* the file is written and closed; in the handler
                            \* os.close(fd) raises for the closed descriptor
                            \* and os.unlink is not reached
                            [ssh EXCEPT !.file_exists = TRUE,
                                        !.file_text = KeyFileText(ssh.ssh_private_key),
                                        !.pc = "cleanup", !.error = "raised"]
    /\ UNCHANGED <<late, proc, probe, params, commits, remote_head, cache_exists, cache_head,
                   storage, pc, cont, crawl, gen, records, result, crawls,
                   store_faults, obs>>

\* Repo.clone_from, origin.fetch or git ls-remote: returns, raises
\* GitCommandError (re-raised as GitClientError), or raises something else
SshGit ==
    /\ ssh.pc = "git"
    /\ \E outcome \in {"", "GitClientError", "raised"} :
          ssh' = [ssh EXCEPT !.pc = "cleanup", !.error = outcome]
    /\ UNCHANGED <<late, proc, probe, params, commits, remote_head, cache_exists, cache_head,
                   storage, pc, cont, crawl, gen, records, result, crawls,
                   store_faults, obs>>

\* the finally clause: _cleanup_ssh_key(ssh_key_path), lines 124-136
SshCleanup ==
    /\ ssh.pc = "cleanup"
    /\ IF ssh.ssh_key_path /\ ssh.file_exists
       THEN \E fault \in CleanupFaults :
              ssh' = CASE fault = "none" ->
                            [ssh EXCEPT !.file_exists = FALSE, !.file_text = <<>>,
                                        !.env_set = FALSE, !.pc = "done"]
                       [] fault = "open" ->
                            [ssh EXCEPT !.env_set = FALSE, !.pc = "done"]
                       [] fault = "unlink" ->
                            [ssh EXCEPT !.file_text = <<"0">>,
                                        !.env_set = FALSE, !.pc = "done"]
       ELSE ssh' = [ssh EXCEPT !.pc = "done"]
    /\ UNCHANGED <<late, proc, probe, params, commits, remote_head, cache_exists, cache_head,
                   storage, pc, cont, crawl, gen, records, result, crawls,
                   store_faults, obs>>

NextSsh ==
    \/ SshStart
    \/ SshSetup
    \/ SshGit
    \/ SshCleanup

SpecSsh == InitSsh /\ [][NextSsh]_vars

(***************************************************************************)
(* Two crawls with SSH credentials in one process: each has a GitClient of *)
(* its own; os.environ is shared.                                          *)
(***************************************************************************)
InitSshPair ==
    /\ Constructed
    /\ params.subdir = <<>>
    /\ commits[1].tree = 1
    /\ probe = NoProbe
    /\ ssh = NoSsh
    /\ proc = NoProc

\* ensure_cloned of client c enters _clone_repo or _fetch_repo
PairStart(c) ==
    /\ proc.clients[c].pc = "idle"
    /\ proc.clients[c].ops < MaxSshOps
    /\ \E op \in {"_clone_repo", "_fetch_repo"} :
          proc' = [proc EXCEPT !.clients[c].op = op, !.clients[c].pc = "setup"]
    /\ UNCHANGED <<late, ssh, probe, params, commits, remote_head, cache_exists,
                   cache_head, storage, pc, cont, crawl, gen, records, result,
                   crawls, store_faults, obs>>

\* _setup_ssh_environment, lines 103-119: the key file of this call is
\* written and os.environ["GIT_SSH_COMMAND"] is set to name it
PairSetup(c) ==
    /\ proc.clients[c].pc = "setup"
    /\ proc' = [proc EXCEPT !.clients[c].file_exists = TRUE,
                            !.clients[c].ssh_key_path = TRUE,
                            !.clients[c].pc = "ready",
                            !.environ = c]
    /\ UNCHANGED <<late, ssh, probe, params, commits, remote_head, cache_exists,
                   cache_head, storage, pc, cont, crawl, gen, records, result,
                   crawls, store_faults, obs>>

\* Repo.clone_from or origin.fetch starts git, which gets the environment
\* of the process as it is now
PairGitStart(c) ==
    /\ proc.clients[c].pc = "ready"
    /\ proc' = [proc EXCEPT !.clients[c].git_env = proc.environ,
                            !.clients[c].pc = "git"]
    /\ UNCHANGED <<late, ssh, probe, params, commits, remote_head, cache_exists,
                   cache_head, storage, pc, cont, crawl, gen, records, result,
                   crawls, store_faults, obs>>

\* the network operation returns or raises
PairGitEnd(c) ==
    /\ proc.clients[c].pc = "git"
    /\ proc' = [proc EXCEPT !.clients[c].git_env = 0,
                            !.clients[c].pc = "cleanup"]
    /\ UNCHANGED <<late, ssh, probe, params, commits, remote_head, cache_exists,
                   cache_head, storage, pc, cont, crawl, gen, records, result,
                   crawls, store_faults, obs>>

\* the finally clause: _cleanup_ssh_key(ssh_key_path), lines 124-136
PairCleanup(c) ==
    /\ proc.clients[c].pc = "cleanup"
    /\ proc' = IF proc.clients[c].ssh_key_path /\ proc.clients[c].file_exists
               THEN [proc EXCEPT !.clients[c].file_exists = FALSE,
                                 !.clients[c].ssh_key_path = FALSE,
                                 !.clients[c].op = "",
                                 !.clients[c].pc = "idle",
                                 !.clients[c].ops = @ + 1,
                                 !.environ = 0]
               ELSE [proc EXCEPT !.clients[c].ssh_key_path = FALSE,
                                 !.clients[c].op = "",
                                 !.clients[c].pc = "idle",
                                 !.clients[c].ops = @ + 1]
    /\ UNCHANGED <<late, ssh, probe, params, commits, remote_head, cache_exists,
                   cache_head, storage, pc, cont, crawl, gen, records, result,
                   crawls, store_faults, obs>>

\* the threads of the two crawls interleave at every call
NextSshPair ==
    \/ \E c \in SshClients : PairStart(c)
    \/ \E c \in SshClients : PairSetup(c)
    \/ \E c \in SshClients : PairGitStart(c)
    \/ \E c \in SshClients : PairGitEnd(c)
    \/ \E c \in SshClients : PairCleanup(c)

SpecSshPair == InitSshPair /\ [][NextSshPair]_vars

(***************************************************************************)
(* The properties.                                                         *)
(***************************************************************************)
\* the last crawl has returned normally
Done == pc = "idle" /\ result = "returned"

\* the last crawl has returned after streaming a non-empty path list
Streamed == Done /\ crawl.total > 0

\* the last crawl started from the state a completed crawl leaves
AfterCompletedCrawl ==
    /\ obs.pre_cache
    /\ obs.pre_sha # 0
    /\ obs.pre_head = obs.pre_sha

\* both state keys were read without a timeout or an error in the last crawl
StoreReadsOk == ~obs.sha_read_failed /\ ~obs.failed_read_failed

\* every set the last crawl issued has stored its value
StoreWritesOk == \A i \in DOMAIN obs.writes : obs.writes[i].saved

RECURSIVE SumItems(_)
SumItems(recs) ==
    IF recs = <<>> THEN 0 ELSE Len(Head(recs).items) + SumItems(Tail(recs))

\* the titles of the descriptors of all records, in order
RECURSIVE Titles(_)
Titles(recs) ==
    IF recs = <<>> THEN <<>>
    ELSE [i \in 1..Len(Head(recs).items) |-> Head(recs).items[i].title]
             \o Titles(Tail(recs))

\* the paths whose read raised in the last crawl
Faulted == Range(obs.faults)

\* a permanent skip as section 4.H of the specification defines it, on the
\* tree the crawl read from
IsPermanentSkip(tree, p) ==
    \/ <<".", ".">> \in Range(Split(p, "/"))
    \/ tree[p] = Absent
    \/ BlobInfo(tree[p]).magic \in {"PNG", "JPEG", "GIF8", "PK", "PDF", "ELF", "MZ"}
    \/ BlobInfo(tree[p]).nulAt \in 1..8192
    \/ ~BlobInfo(tree[p]).utf8
    \/ BlobInfo(tree[p]).size > 5 * 1024 * 1024

PermanentlySkipped ==
    {p \in Range(crawl.paths) \ Faulted :
        IsPermanentSkip(TreeAt(commits, crawl.current_sha), p)}

FirstN(seq, n) == IF Len(seq) <= n THEN seq ELSE SubSeq(seq, 1, n)

LastN(seq, n) == IF Len(seq) <= n THEN seq ELSE SubSeq(seq, Len(seq) - n + 1, Len(seq))

\* the filter of the configuration
Subdir == params.subdir
Extensions == parse_extensions(params.extensions)

\* C1: starting from the state a completed crawl leaves with an empty failed
\* list, when one commit that adds a filter-matching file has been pushed,
\* the next crawl fetches, emits one record with a descriptor of the added
\* file, and stores the new remote head.
C1_IncrementalAdd ==
    ( /\ Done
      /\ AfterCompletedCrawl
      /\ obs.pre_failed # None
      /\ obs.pre_failed = <<>>
      /\ commits[obs.pre_remote].parent = obs.pre_sha
      /\ commits[obs.pre_remote].span = 1
      /\ StoreReadsOk
      /\ StoreWritesOk
      /\ obs.faults = <<>>
      /\ commits[obs.pre_sha].tree = 1
      /\ commits[obs.pre_remote].tree = 2 )
    => /\ obs.fetched
       /\ Len(records) = 1
       /\ Titles(records) = <<PC>>
       /\ storage.sha = obs.pre_remote

\* C2: in a crawl that streamed and returned, the last record is the only
\* one with status "completed" and every earlier one has status "processing".
C2_OneCompletedLast ==
    Streamed =>
        /\ records # <<>>
        /\ records[Len(records)].status = "completed"
        /\ \A i \in 1..(Len(records) - 1) : records[i].status = "processing"

\* C3: in a crawl that streamed a list of T paths and returned, the last
\* record has completed = total = T.
C3_LastCompletedIsTotal ==
    Streamed =>
        /\ records # <<>>
        /\ records[Len(records)].total = Len(crawl.paths)
        /\ records[Len(records)].completed = Len(crawl.paths)

\* C4 as stated: the descriptors of a completed crawl number T minus the
\* permanent skips.
C4_ItemsOriginal ==
    Streamed => SumItems(records) = crawl.total - Cardinality(PermanentlySkipped)

\* C4 amended: the descriptors of a completed crawl number T minus the
\* permanent skips minus the transient failures.
C4_Items ==
    Streamed =>
        SumItems(records)
            = crawl.total - Cardinality(PermanentlySkipped) - Len(obs.faults)

C4_Witness ==
    /\ Streamed
    /\ PermanentlySkipped # {}
    /\ obs.faults # <<>>
    /\ Len(records) > 1
    /\ SumItems(records) > 0

\* C5: a path that failed transiently in a completed crawl is in git_failed
\* afterwards (here: when the failures of the run do not exceed the cap); in
\* the next crawl with no new commits every path of git_failed is attempted
\* again, and when all of them read without a fault git_failed becomes [].
C5_TransientRetry ==
    /\ (Done /\ obs.decided /\ StoreWritesOk /\ Len(obs.faults) <= MAX_FAILED_PATHS)
          => \A p \in Faulted : p \in Range(storage.failed)
    /\ ( /\ Done
         /\ AfterCompletedCrawl
         /\ obs.pre_failed # None
         /\ obs.pre_failed # <<>>
         /\ StoreReadsOk
         /\ StoreWritesOk
         /\ obs.pre_remote = obs.pre_sha )
          => /\ obs.fetched
             /\ \A p \in Range(obs.pre_failed) :
                   /\ p \in Range(crawl.paths)
                   /\ (p \notin Faulted /\ p \notin PermanentlySkipped)
                         => p \in Range(Titles(records))
             /\ obs.faults = <<>> => storage.failed = <<>>

\* C6: starting from the state a completed crawl leaves, when the stored
\* last_sha is no ancestor of the remote head, the next crawl is a full sync
\* whose path list is every filter-matching path of the new tree.
C6_ForcePushFullSync ==
    ( /\ Done
      /\ AfterCompletedCrawl
      /\ StoreReadsOk
      /\ ~is_sha_reachable(commits, obs.pre_sha, obs.pre_remote) )
    => /\ obs.decided
       /\ crawl.is_full_sync
       /\ crawl.paths = list_all_files(TreeAt(commits, obs.pre_remote),
                                       Subdir, Extensions)

C8_NoWriteOnAbort ==
    result = "raised" =>
        /\ storage.sha = obs.pre_sha
        /\ storage.failed = obs.pre_failed

C8_Witness ==
    /\ result = "raised"
    /\ obs.fetched
    /\ obs.pre_failed # None
    /\ obs.pre_sha # obs.pre_remote

\* C9: no permanently skipped path enters the failed set of the run, and the
\* list a run writes to git_failed holds only paths whose read raised.
C9_SkipsNotFailed ==
    /\ pc \in {"stream", "yielded"} =>
          /\ Range(gen.batch_failed) \cup Range(crawl.all_failed) \subseteq Faulted
    /\ (Done /\ obs.decided /\ StoreWritesOk) =>
          /\ Range(storage.failed) \subseteq Faulted
          /\ Range(storage.failed) \cap PermanentlySkipped = {}

C9_Witness ==
    /\ Streamed
    /\ storage.failed # None
    /\ storage.failed # <<>>
    /\ \E p \in PermanentlySkipped : <<".", ".">> \in Range(Split(p, "/"))
    /\ \E p \in PermanentlySkipped :
          BlobInfo(TreeAt(commits, crawl.current_sha)[p]).magic = "PNG"
    /\ \E p \in PermanentlySkipped :
          ~BlobInfo(TreeAt(commits, crawl.current_sha)[p]).utf8
    /\ \E p \in PermanentlySkipped :
          BlobInfo(TreeAt(commits, crawl.current_sha)[p]).size > MAX_FILE_SIZE

C11_FailedCap ==
    storage.failed # None => Len(storage.failed) <= MAX_FAILED_PATHS

C11_Witness ==
    /\ Done
    /\ Len(crawl.all_failed) > MAX_FAILED_PATHS
    /\ Len(obs.writes) = 2
    /\ storage.failed # None
    /\ Len(storage.failed) = MAX_FAILED_PATHS

\* the crawl found the cache, read a last_sha and an empty failed list, and
\* the cached branch head resolved to last_sha
FastPathCase ==
    /\ crawls > 0
    /\ obs.pre_cache
    /\ crawl.last_sha # 0
    /\ crawl.failed_paths = <<>>
    /\ obs.local_sha = crawl.last_sha

\* C12: when the cache exists, last_sha is set, failed_paths is empty and the
\* cached branch head equals last_sha, the crawl emits exactly one empty
\* completed record (total 0, completed 0), clones or fetches nothing and
\* writes neither state key.
C12_FastPathFrame ==
    FastPathCase =>
        /\ records = <<EmptyCompleted>>
        /\ pc \in {"yielded", "idle"}
        /\ result \in {"", "returned", "cancelled"}
        /\ ~obs.fetched
        /\ obs.writes = <<>>
        /\ storage.sha = obs.pre_sha
        /\ storage.failed = obs.pre_failed

C12_Witness ==
    /\ FastPathCase
    /\ Done
    /\ obs.pre_remote # obs.pre_sha

\* C13: when the host stops consuming the stream before it is exhausted,
\* the invocation writes neither state key: both hold the values they had
\* before it, which is what the next crawl starts from.
C13_NoWriteOnCancel ==
    result = "cancelled" =>
        /\ obs.writes = <<>>
        /\ storage.sha = obs.pre_sha
        /\ storage.failed = obs.pre_failed

C13_Witness ==
    /\ result = "cancelled"
    /\ Len(records) >= 2
    /\ crawl.all_failed # <<>>
    /\ crawl.current_sha # obs.pre_sha

\* C14: in one crawl invocation set is called at most once on git_sha and at
\* most once on git_failed, and no record is yielded after either call.
C14_WritesOnceAfterLast ==
    /\ \A k \in {"git_sha", "git_failed"} :
          Cardinality({i \in DOMAIN obs.writes : obs.writes[i].key = k}) <= 1
    /\ \A i \in DOMAIN obs.writes :
          /\ obs.writes[i].after = Len(records)
          /\ Len(records) >= 1

C14_Witness ==
    /\ Done
    /\ Len(obs.writes) = 2
    /\ Len(records) >= 2
    /\ SumItems(records) > BATCH_SIZE

\* C15: when the read of git_sha times out or raises, last_sha is absent: no
\* fast path and no early return, ensure_cloned is called, the path list is
\* that of a full sync, and the crawl raises only if git does; when the read
\* of git_failed times out or raises, failed_paths is empty.
C15_StoreReadDegrades ==
    /\ obs.sha_read_failed =>
          /\ crawl.last_sha = 0
          /\ obs.local_sha = 0
          /\ pc = "ensure_cloned" => records = <<>>
          /\ (pc # "ensure_cloned" /\ result # "raised") => obs.decided
          /\ result = "raised" => ~obs.decided
          /\ obs.decided =>
                /\ obs.fetched
                /\ crawl.is_full_sync
                /\ crawl.paths = list_all_files(
                       TreeAt(commits, crawl.current_sha), Subdir, Extensions)
    /\ obs.failed_read_failed => crawl.failed_paths = <<>>

C15_Witness ==
    /\ obs.sha_read_failed
    /\ AfterCompletedCrawl
    /\ obs.pre_remote = obs.pre_sha
    /\ Done
    /\ crawl.is_full_sync
    /\ SumItems(records) > 0

\* C16: no outcome of one path (traversal rejection, not found, binary,
\* non-UTF-8, oversize, IOError, another exception of the read) aborts the
\* crawl: once the path list is built the crawl does not raise, every path
\* up to the current one has been attempted, and a crawl that returns has
\* attempted every path of its list.
C16_NoAbortPerPath ==
    /\ result = "raised" => ~obs.decided
    /\ obs.decided => gen.attempted = gen.i
    /\ (Done /\ obs.decided) => gen.attempted = Len(crawl.paths)

C16_Witness ==
    /\ Streamed
    /\ Len(obs.faults) >= 2
    /\ obs.faults[1] # crawl.paths[Len(crawl.paths)]
    /\ \E p \in Range(crawl.paths) : TreeAt(commits, crawl.current_sha)[p] = Absent
    /\ \E p \in PermanentlySkipped :
          TreeAt(commits, crawl.current_sha)[p] # Absent
    /\ SumItems(records) > 0

\* a bound on the steps a crawl can still take: three for every path that
\* is left, and the steps around the loop
CrawlMeasure ==
    CASE pc = "idle" -> 0
      [] pc = "ensure_cloned" -> 3 * Len(AllPathsOrdered) + 4
      [] pc = "stream" -> 3 * (crawl.total - gen.i) + 2
      [] pc = "yielded" /\ cont = "stream" -> 3 * (crawl.total - gen.i) + 3
      [] OTHER -> 1

\* the generator is at a point from which its code goes on: at the git
\* calls, in the loop with paths left or at its end, or at a yield the host
\* can resume
CrawlCanStep ==
    \/ pc = "ensure_cloned"
    \/ pc = "stream" /\ gen.i <= crawl.total
    \/ pc = "yielded" /\ cont \in {"return", "save_empty", "stream", "save"}

\* C17: every step of a crawl in progress lowers a natural-number bound on
\* the steps left and leaves the crawl ended or able to take a further step,
\* so a crawl whose stream the host keeps consuming terminates after
\* finitely many records; and a crawl that returns has emitted a record.
C17_Terminates ==
    [][ /\ pc # "idle" => (CrawlMeasure' < CrawlMeasure /\ CrawlMeasure' >= 0)
        /\ pc' # "idle" => CrawlCanStep'
        /\ Done' => Len(records') >= 1 ]_vars

C17_Witness ==
    /\ Done
    /\ crawl.total > 0
    /\ obs.faults = <<>>
    /\ Len(records) = 1
    /\ SumItems(records) = 0

\* the position in the path list of the path a title was made from
PathIndex(title) ==
    CHOOSE k \in 1..Len(crawl.paths) : _normalize_path(crawl.paths[k]).path = title

\* the descriptors emitted so far and those of the batch in the making
TitlesSoFar ==
    IF pc = "stream"
    THEN Titles(records) \o [i \in 1..Len(gen.batch) |-> gen.batch[i].title]
    ELSE Titles(records)

\* C18: within one crawl completed never decreases from one record to the
\* next, and the descriptors come in the order of the path list.
C18_MonotonicInOrder ==
    /\ \A i \in 1..(Len(records) - 1) :
          records[i].completed <= records[i + 1].completed
    /\ \A i \in 1..Len(TitlesSoFar) :
          \E k \in 1..Len(crawl.paths) :
             _normalize_path(crawl.paths[k]).path = TitlesSoFar[i]
    /\ \A i \in 1..(Len(TitlesSoFar) - 1) :
          PathIndex(TitlesSoFar[i]) < PathIndex(TitlesSoFar[i + 1])

C18_Witness ==
    /\ Streamed
    /\ ~crawl.is_full_sync
    /\ Len(records) >= 2
    /\ records[1].completed < records[2].completed
    /\ Len(Titles(records)) >= 3
    /\ crawl.paths # InWalkOrder(AllPathsOrdered, Range(crawl.paths))

\* C19: every emitted descriptor has source_url = git:{config_hash}:{title},
\* the title being the normalized path.
C19_SourceUrl ==
    \A r \in 1..Len(records) : \A i \in 1..Len(records[r].items) :
        LET d == records[r].items[i]
        IN  /\ \E p \in Range(crawl.paths) : d.title = _normalize_path(p).path
            /\ d.source_url = <<"git", crawl.config_hash, d.title>>

\* the effective configuration of a parameter set
EffectiveConfig(p) ==
    <<p.repo_url, GetOr(p.branch, Main), GetOr(p.subdir, <<>>),
      _canonicalize_extensions(p.extensions)>>

\* C20: two parameter sets that differ in repo_url, branch, subdir or the
\* content of extensions are given different values by _get_config_hash.
C20_DistinctHashes ==
    (probe.fn = "_get_config_hash" /\ probe.out # <<>>) =>
        ( EffectiveConfig(probe.args[1]) # EffectiveConfig(probe.args[2])
            => probe.out[1] # probe.out[2] )

\* two spellings of one value of branch or subdir
SameOrDefault(x, y, default) ==
    x = y \/ ({x, y} \subseteq {Missing, <<>>, default})

\* the two parameter sets differ at most in the spelling of the extensions
\* entries and in branch and subdir being left out
SameSpelling ==
    LET a == probe.args[1]
        b == probe.args[2]
    IN  /\ probe.fn = "_get_config_hash"
        /\ a.repo_url = b.repo_url
        /\ SameOrDefault(a.branch, b.branch, Main)
        /\ SameOrDefault(a.subdir, b.subdir, <<>>)
        /\ \E entries \in ExtensionEntries :
              {a.extensions, b.extensions} \subseteq ExtensionSpellings(entries)

\* C21: _get_config_hash gives one value to two parameter sets that differ
\* only in the order, case or surrounding whitespace of the extensions
\* entries, or in branch or subdir being missing rather than "main" and "".
C21_HashCanonical ==
    (SameSpelling /\ probe.out # <<>>) => probe.out[1] = probe.out[2]

C21_Witness ==
    /\ SameSpelling
    /\ probe.out # <<>>
    /\ probe.args[1].branch = Missing
    /\ probe.args[1].subdir = Missing
    /\ probe.args[1].extensions = <<" ", "D", "U", ",", "M">>
    /\ probe.args[2].extensions = <<"m", " ", ",", "d", "u">>
    /\ probe.out[1] = probe.out[2]

\* C22: for a path without a ".." component, _normalize_path applied to its
\* own result returns that result.
C22_NormalizeIdempotent ==
    (probe.fn = "_normalize_path" /\ Len(probe.out) = 2) =>
        probe.out[2] = probe.out[1]

\* C23: the result of mask_credentials contains no non-empty string value of
\* the credentials map.
C23_NoSecretInMasked ==
    (probe.fn = "mask_credentials" /\ probe.out # <<>>) =>
        \A i \in 1..Len(probe.args[2]) :
            LET value == probe.args[2][i]
            IN  (value # NotAString /\ value # <<>>) => ~Contains(probe.out[1], value)

\* C24: the message of the GitClientError holds neither the user nor the
\* password of any URL with credentials that the git error text holds.
C24_NoUrlCredentials ==
    (probe.fn = "mask_url" /\ probe.out # <<>>) =>
        ("u" \notin Range(probe.out[1]) /\ "p" \notin Range(probe.out[1]))

\* the key text as it is meant to reach the key file: literal backslash-n
\* expanded, CRLF turned into LF, trimmed, one newline appended
ExpectedKeyText(ssh_key) ==
    LET expanded == Replace(ssh_key, <<"\\", "n">>, <<"\n">>)
        unix == Replace(expanded, <<"\r", "\n">>, <<"\n">>)
    IN  Strip(unix, {" ", "\n", "\r"}) \o <<"\n">>

\* C25: the text _setup_ssh_environment has written to the key file is the
\* configured key with literal backslash-n expanded, CRLF turned into LF,
\* surrounding whitespace trimmed and one trailing newline appended.
C25_KeyFileText ==
    (ssh.pc = "git" /\ ssh.ssh_key_path) =>
        ssh.file_text = ExpectedKeyText(ssh.ssh_private_key)

\* C26: once clone, fetch or connection test with a key configured has
\* returned or raised, the key file does not exist and GIT_SSH_COMMAND is
\* not set.
C26_KeyFileRemoved ==
    (ssh.pc = "done" /\ ssh.ssh_private_key # <<>>) =>
        (~ssh.file_exists /\ ~ssh.env_set)

\* the path set of incremental mode, with the configured filter applied to
\* the changed paths, to the two sides of a rename and to the failed paths
IncrementalPathSet(old_tree, new_tree, subdir, extensions, failed_paths) ==
    LET diff == get_changed_files(old_tree, new_tree, <<>>, <<>>)
        Passes(p) == FilterPaths(p, subdir, extensions)
    IN  {p \in diff.added : Passes(p)}
            \cup {p \in diff.modified : Passes(p)}
            \cup {r[2] : r \in {x \in diff.renamed : Passes(x[1]) \/ Passes(x[2])}}
            \cup {p \in Range(failed_paths) : Passes(p)}

\* C27: in incremental mode the path list is the union of the filtered
\* added paths, the filtered modified paths, the new path of every rename
\* of which a side passes the filter, and the prior failed paths that pass
\* the filter, each path once.
C27_IncrementalPaths ==
    (obs.decided /\ ~crawl.is_full_sync) =>
        /\ Range(crawl.paths) =
              IncrementalPathSet(TreeAt(commits, crawl.last_sha),
                                 TreeAt(commits, crawl.current_sha),
                                 Subdir, Extensions, crawl.failed_paths)
        /\ \A i, j \in 1..Len(crawl.paths) : crawl.paths[i] = crawl.paths[j] => i = j

\* C28: when the computed path list is empty, the crawl emits exactly one
\* record, with no items, status "completed", total 0 and completed 0, and
\* after it calls set on git_sha with current_sha and on git_failed with [].
C28_EmptyPathList ==
    (obs.decided /\ crawl.paths = <<>>) =>
        /\ Len(records) = 1
        /\ records[1].items = <<>>
        /\ records[1].status = "completed"
        /\ records[1].total = 0
        /\ records[1].completed = 0
        /\ pc = "yielded" => obs.writes = <<>>
        /\ Done =>
              /\ Len(obs.writes) = 2
              /\ obs.writes[1].key = "git_sha"
              /\ obs.writes[2].key = "git_failed"
              /\ obs.writes[1].saved => storage.sha = crawl.current_sha
              /\ obs.writes[2].saved => storage.failed = <<>>

C28_Witness ==
    /\ obs.decided
    /\ crawl.paths = <<>>
    /\ Done
    /\ StoreWritesOk
    /\ obs.pre_failed # None
    /\ obs.pre_failed # <<>>
    /\ obs.pre_sha # crawl.current_sha
    /\ storage.sha = crawl.current_sha
    /\ storage.failed = <<>>

\* C29: a store call that does not return within its bounded join does not
\* block the crawl. A read at the start gives the degraded default and the
\* crawl goes on; a set at the end is given up and the crawl returns, all
\* its records emitted before.
C29_StoreTimeoutNoBlock ==
    [][ store_faults' > store_faults =>
          /\ pc = "idle" =>
                /\ CrawlCanStep'
                /\ pc' \in {"ensure_cloned", "yielded"}
                /\ obs'.sha_read_failed => crawl'.last_sha = 0
                /\ obs'.failed_read_failed => crawl'.failed_paths = <<>>
          /\ pc # "idle" =>
                /\ pc' = "idle"
                /\ result' = "returned"
                /\ records' = records
                /\ Len(records) >= 1
                /\ obs.decided
                /\ gen.attempted = Len(crawl.paths)
                /\ SumItems(records) = crawl.total - Cardinality(PermanentlySkipped)
                                            - Len(obs.faults) ]_vars

C29_Witness ==
    /\ Streamed
    /\ Len(obs.writes) = 2
    /\ ~obs.writes[1].saved
    /\ storage.sha # crawl.current_sha
    /\ Len(records) >= 2
    /\ SumItems(records) > BATCH_SIZE

C31_BatchSize ==
    /\ \A i \in 1..Len(obs.yields) :
          /\ obs.yields[i].items <= BATCH_SIZE
          /\ i < Len(obs.yields) => obs.yields[i].items = BATCH_SIZE
    /\ (pc = "yielded" /\ cont = "stream") =>
          obs.yields[Len(obs.yields)].items = BATCH_SIZE

C31_Witness ==
    /\ Streamed
    /\ Len(obs.yields) = 2
    /\ obs.faults # <<>>
    /\ PermanentlySkipped # {}
    /\ obs.yields[1].attempted > BATCH_SIZE
    /\ obs.yields[2].items \in 1..(BATCH_SIZE - 1)

\* C35: in every record emitted by the streaming crawl, completed equals the
\* number of input paths the pipeline has attempted so far (the count the
\* tuple of the record carries), and so 0 <= completed <= total.
C35_CompletedIsAttempted ==
    \A i \in 1..Len(records) :
        /\ records[i].completed >= 0
        /\ records[i].completed <= records[i].total
        /\ i <= Len(obs.yields) => records[i].completed = obs.yields[i].attempted

\* C39: the inline test that _get_file_paths_incremental applies to prior
\* failed paths and get_changed_files to the sides of a rename accepts a
\* path exactly when filter_by_subdir followed by filter_by_extensions
\* accepts it, for the same subdir and extensions.
C39_InlineFilterEquivalent ==
    (probe.fn = "filter" /\ probe.out # <<>>) => probe.out[2] = probe.out[1]

\* C34: every path placed in the path list of a crawl, and the path of
\* every descriptor emitted, passes the configured subdir and extension
\* filter, in full mode and in incremental mode, renames whose old side
\* alone matches the filter included.
C34_PathsPassFilter ==
    /\ \A p \in Range(crawl.paths) :
          FilterPaths(p, params.subdir, parse_extensions(params.extensions))
    /\ \A t \in Range(Titles(records)) :
          \E p \in Range(crawl.paths) :
              /\ _normalize_path(p).path = t
              /\ FilterPaths(p, params.subdir, parse_extensions(params.extensions))

\* C32: after a crawl whose stream finished normally the two state keys are
\* consistent: when git_sha holds the current_sha of the run, git_failed
\* holds the transient failures the run accumulated (up to the cap), also
\* when a store write fails or times out (a key that is absent reads as the
\* empty list).
C32_KeysConsistent ==
    (Done /\ Len(obs.writes) = 2 /\ storage.sha = crawl.current_sha) =>
        _get_failed_paths(FALSE) = LimitedPaths(crawl.all_failed)

\* C33: a path stored in git_failed is removed from it only by a crawl that
\* attempted the path again or found that it no longer passes the filter
\* (here also: or that it is no longer in the tree); a crawl that read the
\* failed paths as empty because the store read timed out or raised does
\* not overwrite git_failed with a list that omits paths it did not retry.
C33_FailedPathsKept ==
    ( /\ Done
      /\ Len(obs.writes) = 2
      /\ obs.writes[2].saved
      /\ obs.pre_failed # None )
        => \A p \in Range(obs.pre_failed) \ Range(storage.failed) :
              \/ p \in Range(crawl.paths)
              \/ ~FilterPaths(p, params.subdir, parse_extensions(params.extensions))
              \/ ~InlineMatch(p, params.subdir, parse_extensions(params.extensions))
              \/ TreeAt(commits, crawl.current_sha)[p] = Absent

\* C37: the tree listing and every blob read of a crawl are taken from the
\* commit current_sha that the crawl later stores as last_sha, also when a
\* crawl of another config_hash with the same repo_url and branch fetches
\* into the shared cache directory while this crawl is streaming: every
\* descriptor of the crawl holds the blob that the tree of current_sha has
\* at its path.
C37_ReadsFromCurrentSha ==
    \A r \in Range(records) : \A d \in Range(r.items) :
        \E p \in Range(crawl.paths) :
            /\ _normalize_path(p).path = d.title
            /\ TreeAt(commits, crawl.current_sha)[p] = d.content

\* C38: a state-store write whose bounded join timed out has no later
\* effect: while no crawl is running the stored last_sha and a stored list
\* of failed paths do not change, and the stored last_sha never moves back
\* to an ancestor of the commit it held.
C38_NoLateWrite ==
    [][ /\ (pc = "idle" /\ pc' = "idle") =>
              /\ storage'.sha = storage.sha
              /\ storage.failed # None => storage'.failed = storage.failed
        /\ (storage.sha # 0 /\ storage'.sha # storage.sha) =>
              storage'.sha \notin Ancestors(commits, storage.sha)
      ]_vars

\* C36: when two crawls with SSH credentials run concurrently in one
\* process, each clone or fetch runs for its whole duration with
\* GIT_SSH_COMMAND naming its own, still existing key file: while the
\* network operation of a client is in progress the variable names the key
\* file of that client, as it did when git was started, and the file exists.
C36_OwnKeyDuringGit ==
    \A c \in SshClients :
        proc.clients[c].pc = "git" =>
            /\ proc.environ = c
            /\ proc.clients[c].git_env = c
            /\ proc.clients[c].file_exists

====
